---------------------------- MODULE Spec2Model ----------------------------
(***************************************************************************)
(* A model of acispy's thermal-model layer (src/acispy/thermal_models.py,  *)
(* src/acispy/model.py).                                                   *)
(*                                                                         *)
(* Units.  Times are whole seconds.  Temperatures are whole tenths of a    *)
(* degree C, so the limit 35.5 is 355.  A duration in ks is kept in        *)
(* thousandths of a ks (three decimals fixed point).  Interpolated values  *)
(* are exact rationals <<numerator, denominator>>.  Python's None is the   *)
(* empty tuple and a value v that may be None is <<v>>.                    *)
(*                                                                         *)
(* External collaborators (xija, the engineering archive, the tracelog     *)
(* reader, the web pages, the file system) answer through a "world"        *)
(* record that the actions choose from bounded sets.                       *)
(***************************************************************************)
EXTENDS Integers, Sequences, FiniteSets, TLC

VARIABLES
    cti,        \* the SimulateCTIRun object: its attributes, as a record
    cti_exc,    \* the exception its construction or last method raised
    cti_calls,  \* the external calls its construction made, in order
    cti_ret,    \* the last method called on it and what it did
    cti_args,   \* the arguments it was constructed with, and the states and
                \* rolls of the vehicle load's page
    environ_SKA,\* os.environ["SKA"]: None when unset, else <<directory>>
    fs,         \* the file system: a function from the paths that exist
                \* to their contents
    tmr,        \* the ThermalModelRunner object: its attributes
    tmr_exc,    \* the exception its construction raised
    tmr_calls,  \* the external calls its construction made, in order
    tmr_args,   \* the arguments it was constructed with
    fj_ret,     \* the last direct call of find_json: arguments and result
    tmr_ret,    \* the last method called on the runner and what it did
    ds,         \* the ModelDataset object: its attributes
    ds_exc,     \* the exception its construction raised
    ds_calls,   \* the external calls its construction made, in order
    ds_args,    \* the constructor called, its arguments and its world
    wr,         \* the last write call: method, arguments and exception
    mdl,        \* the last Model built by a classmethod, with its arguments
    rd          \* the last table read back from a file

ctiVars == <<cti, cti_exc, cti_calls, cti_ret, cti_args>>

envVars == <<environ_SKA, fs>>

tmrVars == <<tmr, tmr_exc, tmr_calls, tmr_args, fj_ret, tmr_ret>>

dsVars == <<ds, ds_exc, ds_calls, ds_args, wr>>

mdlVars == <<mdl, rd>>

vars == <<cti, cti_exc, cti_calls, cti_ret, cti_args, environ_SKA, fs,
          tmr, tmr_exc, tmr_calls, tmr_args, fj_ret, tmr_ret,
          ds, ds_exc, ds_calls, ds_args, wr, mdl, rd>>

---------------------------------------------------------------------------
(* Python values *)

None == <<>>

Some(v) == <<v>>

NoExc == "None"

\* An object with no attribute set.
NoAttrs == [a \in {} |-> None]

\* setattr(self, a, v)
SetAttr(self, a, v) == (a :> v) @@ self

HasAttr(self, a) == a \in DOMAIN self

\* Chandra.Time.secs2date / date2secs: a date string is a tagged time.
secs2date(t) == <<"date", t>>

date2secs(d) == d[2]

---------------------------------------------------------------------------
(* Module-level tables of thermal_models.py *)

short_name ==
    ("1deamzt" :> "dea") @@ ("1dpamzt" :> "dpa") @@ ("1pdeaat" :> "psmc") @@
    ("fptemp_11" :> "acisfp") @@ ("tmp_fep1_mong" :> "fep1_mong") @@
    ("tmp_fep1_actel" :> "fep1_actel") @@ ("tmp_bep_pcb" :> "bep_pcb")

\* degrees C times ten
limits ==
    ("1deamzt" :> 355) @@ ("1dpamzt" :> 355) @@ ("1pdeaat" :> 525) @@
    ("tmp_fep1_mong" :> 430) @@ ("tmp_fep1_actel" :> 430) @@
    ("tmp_bep_pcb" :> 430)

---------------------------------------------------------------------------
(* find_json.  A path is a tuple of its parts; env is os.environ's SKA and  *)
(* files the file system.                                                  *)

\* os.path.exists(path)
os_path_exists(path, files) == path \in DOMAIN files

SpecFile(name) == <<name, "_model_spec.json">>

DefaultSpecPath(sname, env, files) ==
    LET path == IF sname = "psmc" THEN "psmc_check" ELSE sname
    IN  IF env # None /\ os_path_exists(env[1], files)
        THEN env[1] \o <<"share", path>> \o SpecFile(sname)
        ELSE <<"cwd">> \o SpecFile(sname)

\* the existence of an explicitly given model_spec not checked
find_json_trusting(name, model_spec, env, files) ==
    IF name \notin DOMAIN short_name
    THEN [exc |-> "KeyError", value |-> None]
    ELSE LET sname == short_name[name]
             resolved == IF model_spec = None
                         THEN DefaultSpecPath(sname, env, files)
                         ELSE model_spec[1]
         IN  IF model_spec = None /\ ~os_path_exists(resolved, files)
             THEN [exc |-> "IOError", value |-> None]
             ELSE [exc |-> NoExc, value |-> Some(resolved)]

find_json(name, model_spec, env, files) ==
    IF name \notin DOMAIN short_name
    THEN [exc |-> "KeyError", value |-> None]
    ELSE LET sname == short_name[name]
             resolved == IF model_spec = None
                         THEN DefaultSpecPath(sname, env, files)
                         ELSE model_spec[1]
         IN  IF ~os_path_exists(resolved, files)
             THEN [exc |-> "IOError", value |-> None]
             ELSE [exc |-> NoExc, value |-> Some(resolved)]

---------------------------------------------------------------------------
(* Model (src/acispy/model.py): a table of arrays keyed by component, with *)
(* the shared time axis under "times", and the list of keys.               *)

Model_from_xija(xija_model, components) ==
    LET table == [k \in {components[i] : i \in 1..Len(components)} |->
                     xija_model.comp[k]]
    IN  [table |-> ("times" :> xija_model.times) @@ table,
         keys  |-> components]

\* comp_map of src/acispy/model.py
comp_map ==
    ("1deamzt" :> "dea") @@ ("1dpamzt" :> "dpa") @@ ("1pdeaat" :> "psmc") @@
    ("fptemp_11" :> "fp")

\* comp_map of src/acis/model.py
acis_comp_map ==
    ("1deamzt" :> "dea") @@ ("1dpamzt" :> "dpa") @@ ("1pdeaat" :> "psmc")

\* the keys of a dict filled in the order of the list: each name once, at
\* its first place
RECURSIVE DictKeys(_)
DictKeys(list) ==
    IF list = <<>> THEN <<>>
    ELSE LET front == DictKeys(SubSeq(list, 1, Len(list) - 1))
             last  == list[Len(list)]
         IN  IF \E i \in 1..Len(front) : front[i] = last THEN front
             ELSE Append(front, last)

\* Model.from_load(load, components) of src/acispy/model.py.  components is
\* [kind, v]: a list, or one string held as <<string>>.  w.pages[comp] is
\* the temperatures.dat table of the component's web page.  The result is
\* [exc, table, keys].
Model_from_load(load, components, w) ==
    LET comps == IF components.kind = "list" THEN components.v
                 ELSE <<components.v[1]>>
        n     == Len(comps)
        table_key(comp) == IF comp = "fptemp_11" THEN "fptemp" ELSE comp
        data  == [comp \in {comps[i] : i \in 1..n} |->
                     w.pages[comp][table_key(comp)]]
        table == w.pages[comps[n]]
        keys  == Append(DictKeys(comps), "times")
    IN  IF \E i \in 1..n : comps[i] \notin DOMAIN comp_map
        THEN [exc |-> "KeyError", table |-> NoAttrs, keys |-> <<>>]
        ELSE IF n = 0
        THEN [exc |-> "UnboundLocalError", table |-> NoAttrs, keys |-> <<>>]
        ELSE [exc |-> NoExc, table |-> ("times" :> table["time"]) @@ data,
              keys |-> keys]

\* Model.from_xija(model, comps) of src/acis/model.py: the time axis is
\* held beside the table
acis_Model_from_xija(xija_model, comps) ==
    [time  |-> xija_model.times,
     table |-> [k \in {comps[i] : i \in 1..Len(comps)} |-> xija_model.comp[k]],
     keys  |-> comps]

\* Model.from_load(load, components) of src/acis/model.py.  The result is
\* [exc, time, table, keys].
acis_Model_from_load(load, components, w) ==
    LET comps == IF components.kind = "list" THEN components.v
                 ELSE <<components.v[1]>>
        n     == Len(comps)
        data  == [comp \in {comps[i] : i \in 1..n} |-> w.pages[comp][comp]]
        table == w.pages[comps[n]]
    IN  IF \E i \in 1..n : comps[i] \notin DOMAIN acis_comp_map
        THEN [exc |-> "KeyError", time |-> <<>>, table |-> NoAttrs,
              keys |-> <<>>]
        ELSE IF n = 0
        THEN [exc |-> "UnboundLocalError", time |-> <<>>, table |-> NoAttrs,
              keys |-> <<>>]
        ELSE [exc |-> NoExc, time |-> table["time"], table |-> data,
              keys |-> DictKeys(comps)]

\* Ska.Numpy.interpolate(yin, xin, [xout]), linear: i1 is
\* np.searchsorted(xin, xout) moved into 1..len-1, the samples i1-1 and i1
\* bracket xout, and the value is
\* (xout - x0) / (x1 - x0) * (y1 - y0) + y0, as the rational
\* <<numerator, denominator>>.  Indices here are one more than numpy's.
Ska_interpolate(yin, xin, xout) ==
    LET n  == Len(xin)
        ss == Cardinality({k \in 1..n : xin[k] < xout})
        i1 == IF ss = 0 THEN 1 ELSE IF ss = n THEN n - 1 ELSE ss
        x0 == xin[i1]
        x1 == xin[i1 + 1]
        y0 == yin[i1]
        y1 == yin[i1 + 1]
    IN  <<(xout - x0) * (y1 - y0) + y0 * (x1 - x0), x1 - x0>>

\* Model.get_values(time), time in seconds
Model_get_values(model, time) ==
    [key \in {model.keys[i] : i \in 1..Len(model.keys)} |->
        Ska_interpolate(model.table[key], model.table["times"], time)]

---------------------------------------------------------------------------
(* ThermalModelRunner.__init__(self, name, tstart, tstop, states, T_init,  *)
(* use_msids, model_spec, include_bad_times, server, ephemeris).           *)
(* a is the record of arguments, w the world's answers.  The result is     *)
(* [self, exc, calls]: the attributes set so far, the exception that ended *)
(* the constructor (NoExc when it returned), and the external calls made.  *)

\* acispy.utils.calc_off_nom_rolls: the roll of every state, from the
\* attitude of the states it is given.
calc_off_nom_rolls(states, w) ==
    [i \in 1..Len(states["tstart"]) |-> w.rolls[i]]

\* masks[name] = ones; masks[name][left:right] = False for the bad intervals
BadTimesMask(n, bad_times_indices) ==
    [i \in 1..n |-> ~(\E lr \in bad_times_indices : lr[1] < i /\ i <= lr[2])]

TMR_compute_model(a, w) ==
    [tstart |-> date2secs(a.tstart), tstop |-> date2secs(a.tstop),
     times |-> w.xija_times,
     comp  |-> IF w.dpa_power
               THEN (a.name :> w.xija_mvals) @@
                    ("dpa_power" :> [i \in 1..Len(w.xija_times) |-> 0])
               ELSE (a.name :> w.xija_mvals),
     bad_times_indices |-> w.bad_times_indices]

\* telemetry is fetched whatever T_init and use_msids are
TMR_initial_temperature_fetching(a, w) ==
    [exc |-> NoExc, calls |-> <<"fetch.MSID">>, T_init |-> Some(w.telem_mean)]

\* lines 322-326: the initial temperature, [exc, calls, T_init]
TMR_initial_temperature(a, w) ==
    IF a.T_init = None
    THEN IF ~a.use_msids
         THEN [exc |-> "RuntimeError", calls |-> <<>>, T_init |-> None]
         ELSE [exc |-> NoExc, calls |-> <<"fetch.MSID">>,
               T_init |-> Some(w.telem_mean)]
    ELSE [exc |-> NoExc, calls |-> <<>>, T_init |-> a.T_init]

TMR_init(self0, a, w) ==
    LET self1  == SetAttr(self0, "name", a.name)
        fromdb == a.states = None
        given  == a.states[1]
        n      == Len(given["datestart"])
        states == IF fromdb
                  THEN ("off_nominal_roll" :> calc_off_nom_rolls(w.db_states, w))
                       @@ w.db_states
                  ELSE IF "tstart" \notin DOMAIN given
                  THEN ("tstart" :> [i \in 1..n |-> date2secs(given["datestart"][i])])
                       @@ ("tstop" :> [i \in 1..n |-> date2secs(given["datestop"][i])])
                       @@ given
                  ELSE given
        calls1 == IF fromdb THEN <<"States.from_database">> ELSE <<>>
        ti     == TMR_initial_temperature(a, w)
        calls2 == calls1 \o ti.calls
        fj     == find_json(a.name, a.model_spec, w.environ_SKA, w.fs)
        calls3 == calls2 \o <<"find_json">>
        self2  == SetAttr(self1, "model_spec", fj.value[1])
        xm     == [T_init |-> ti.T_init[1]] @@ TMR_compute_model(a, w)
        calls4 == calls3 \o <<"xija.make", "xija.calc">>
        self3  == SetAttr(SetAttr(self2, "xija_model", xm),
                          "bad_times_indices", xm.bad_times_indices)
        states_obj == IF fromdb THEN w.db_states ELSE states
        components == IF "dpa_power" \in DOMAIN xm.comp
                      THEN <<a.name, "dpa_power">> ELSE <<a.name>>
        masks  == IF a.include_bad_times
                  THEN (a.name :> BadTimesMask(Len(xm.times), xm.bad_times_indices))
                  ELSE NoAttrs
        model_obj == [masks |-> masks] @@ Model_from_xija(xm, components)
        msids_obj == IF a.use_msids
                     THEN [source |-> "database", size |-> w.msids_size,
                           keys |-> {a.name}, value |-> w.telem_vals,
                           mask |-> w.telem_mask]
                     ELSE [source |-> "empty", size |-> 0, keys |-> {},
                           value |-> <<>>, mask |-> <<>>]
        calls5 == IF a.use_msids THEN calls4 \o <<"MSIDs.from_database">>
                  ELSE calls4
        self4  == SetAttr(SetAttr(SetAttr(self3, "msids", msids_obj),
                                  "states", states_obj), "model", model_obj)
    IN  IF ti.exc # NoExc
        THEN [self |-> self1, exc |-> ti.exc, calls |-> calls2]
        ELSE IF fj.exc # NoExc
        THEN [self |-> self1, exc |-> fj.exc, calls |-> calls3]
        ELSE IF a.ephemeris # None
        THEN [self |-> self2, exc |-> "KeyError",
              calls |-> calls3 \o <<"ascii.read">>]
        ELSE [self |-> self4, exc |-> NoExc, calls |-> calls5]

\* degrees C times ten
margins ==
    ("1deamzt" :> 20) @@ ("1dpamzt" :> 20) @@ ("1pdeaat" :> 45) @@
    ("tmp_fep1_mong" :> 20) @@ ("tmp_fep1_actel" :> 20) @@
    ("tmp_bep_pcb" :> 20)

\* the values of an array at the places its mask holds, in order
Masked(values, mask) ==
    LET idx == SelectSeq([i \in 1..Len(values) |-> i], LAMBDA i : mask[i])
    IN  [k \in 1..Len(idx) |-> values[idx[k]]]

\* ndarray.min() and ndarray.max() of an array that is not empty
np_min(values) ==
    CHOOSE v \in {values[i] : i \in 1..Len(values)} :
        \A i \in 1..Len(values) : v <= values[i]

np_max(values) ==
    CHOOSE v \in {values[i] : i \in 1..Len(values)} :
        \A i \in 1..Len(values) : v >= values[i]

\* lines 532-534: ymin = min(telem.min(), pred.min()) - 2 and
\* ymax = min(telem.max(), pred.max()) + 2, of the unmasked values
DefaultYLimits(telem, pred) ==
    <<(IF np_min(telem) <= np_min(pred) THEN np_min(telem) ELSE np_min(pred)) - 20,
      (IF np_max(telem) <= np_max(pred) THEN np_max(telem) ELSE np_max(pred)) + 20>>

\* ThermalModelRunner.make_dashboard_plots(yplotlimits, errorplotlimits,
\* fig, figfile, bad_times).  The result is [exc, dashboard]: the exception
\* raised and the arguments dash.dashboard was called with.  bad_times is a
\* list of (left, right) pairs of times.
TMR_make_dashboard_plots(self, yplotlimits, errorplotlimits, bad_times) ==
    LET msid  == self.name
        telem == self.msids
        times == self.model.table["times"]
        pred  == self.model.table[msid]
        pmask == IF msid \in DOMAIN self.model.masks THEN self.model.masks[msid]
                 ELSE [i \in 1..Len(pred) |-> TRUE]
        bad   == IF bad_times = None THEN <<>> ELSE bad_times[1]
        mask  == [i \in 1..Len(pred) |->
                     /\ telem.mask[i] /\ pmask[i]
                     /\ ~\E k \in 1..Len(bad) :
                            times[i] >= bad[k][1] /\ times[i] <= bad[k][2]]
        tv    == Masked(telem.value, mask)
        pv    == Masked(pred, mask)
        ylim  == IF yplotlimits = None THEN DefaultYLimits(tv, pv)
                 ELSE yplotlimits[1]
        elim  == IF errorplotlimits = None THEN <<-150, 150>>
                 ELSE errorplotlimits[1]
        mylimits == IF msid = "fptemp_11"
                    THEN [caution_high |-> None, planning_limit |-> None]
                    ELSE [caution_high |-> Some(limits[msid] + margins[msid]),
                          planning_limit |-> Some(limits[msid])]
    IN  IF msid \notin telem.keys
        THEN [exc |-> "RuntimeError", dashboard |-> None]
        ELSE IF Len(telem.mask) # Len(pmask)
        THEN [exc |-> "ValueError", dashboard |-> None]
        ELSE IF yplotlimits = None /\ tv = <<>>
        THEN [exc |-> "ValueError", dashboard |-> None]
        ELSE IF msid # "fptemp_11" /\ msid \notin DOMAIN limits
        THEN [exc |-> "KeyError", dashboard |-> None]
        ELSE [exc |-> NoExc,
              dashboard |-> Some([pred |-> pv, telem |-> tv,
                                  times |-> Masked(times, mask),
                                  limits |-> mylimits, errorplotlimits |-> elim,
                                  yplotlimits |-> ylim])]

---------------------------------------------------------------------------
(* SimulateCTIRun.__init__(self, name, tstart, tstop, T_init, pitch,       *)
(* ccd_count, vehicle_load, simpos, off_nominal_roll, dh_heater, clocking, *)
(* model_spec).                                                            *)

\* the comparison turned round
Viols_flipped(mvals, limit) == [i \in 1..Len(mvals) |-> mvals[i] < limit]

\* the comparison made non-strict
Viols_ge(mvals, limit) == [i \in 1..Len(mvals) |-> mvals[i] >= limit]

\* viols = self.mvals.value > self.limit.value
Viols(mvals, limit) == [i \in 1..Len(mvals) |-> mvals[i] > limit]

\* np.any(viols)
np_any(viols) == \E i \in 1..Len(viols) : viols[i]

\* np.where(viols)[0][-1]: the highest index that holds
np_where_last(viols) ==
    CHOOSE i \in 1..Len(viols) :
        viols[i] /\ \A j \in (i + 1)..Len(viols) : ~viols[j]

\* np.where(viols)[0][0]: the lowest index that holds
np_where_first(viols) ==
    CHOOSE i \in 1..Len(viols) :
        viols[i] /\ \A j \in 1..(i - 1) : ~viols[j]

\* the start of the run not taken off
Duration_sinceEpoch(limit_time, tstart) == limit_time

\* Quantity((self.limit_time.value - tstart) * 0.001, "ks"), in thousandths
\* of a ks
Duration(limit_time, tstart) == limit_time - tstart

\* a crossing at the stop time counted as before it
Violate_le(limit_time, tstop) == limit_time <= tstop

\* if self.limit_time < self.tstop: self.violate = True, else False
Violate(limit_time, tstop) == limit_time < tstop

\* states of a run with no vehicle load: one state over [tstart, tend]
CTI_plain_states(a, self, tend) ==
    ("ccd_count" :> <<a.ccd_count>>) @@ ("fep_count" :> <<a.ccd_count>>) @@
    ("clocking" :> <<a.clocking>>) @@ ("vid_board" :> <<a.clocking>>) @@
    ("pitch" :> <<a.pitch>>) @@ ("simpos" :> <<a.simpos>>) @@
    ("datestart" :> <<self.datestart>>) @@ ("datestop" :> <<self.dateend>>) @@
    ("tstart" :> <<self.tstart>>) @@ ("tstop" :> <<tend>>) @@
    ("off_nominal_roll" :> <<a.off_nominal_roll>>) @@
    ("dh_heater" :> <<a.dh_heater>>)

\* a state that starts at the stop time taken as part of the run
CTI_load_states_le(a, w, tstop) ==
    LET page == ("off_nominal_roll" :> calc_off_nom_rolls(w.load_states, w))
                @@ w.load_states
        n    == Len(page["tstart"])
        cti_run_idxs == [i \in 1..n |-> page["tstart"][i] <= tstop]
        Put(col, v) == [i \in 1..n |-> IF cti_run_idxs[i] THEN v ELSE col[i]]
    IN  ("ccd_count" :> Put(page["ccd_count"], a.ccd_count)) @@
        ("fep_count" :> Put(page["fep_count"], a.ccd_count)) @@
        ("clocking" :> Put(page["clocking"], 1)) @@
        ("vid_board" :> Put(page["vid_board"], 1)) @@ page

\* states of a run concurrent with a vehicle load: the load's states, with
\* the CTI run's clocking configuration in every state that starts before
\* the end of the run
CTI_load_states(a, w, tstop) ==
    LET page == ("off_nominal_roll" :> calc_off_nom_rolls(w.load_states, w))
                @@ w.load_states
        n    == Len(page["tstart"])
        cti_run_idxs == [i \in 1..n |-> page["tstart"][i] < tstop]
        Put(col, v) == [i \in 1..n |-> IF cti_run_idxs[i] THEN v ELSE col[i]]
    IN  ("ccd_count" :> Put(page["ccd_count"], a.ccd_count)) @@
        ("fep_count" :> Put(page["fep_count"], a.ccd_count)) @@
        ("clocking" :> Put(page["clocking"], 1)) @@
        ("vid_board" :> Put(page["vid_board"], 1)) @@ page

\* the scan with the date of the crossing left unset
CTI_scan_undated(self, tstart) ==
    LET limit == limits[self.name]
        mvals == self.model.table[self.name]
        times == self.model.table["times"]
        viols == Viols(mvals, limit)
        limit_time == times[np_where_first(viols)]
        self1 == SetAttr(self, "limit", limit)
    IN  IF np_any(viols)
        THEN ("limit_time" :> Some(limit_time)) @@ ("limit_date" :> None) @@
             ("duration" :> Some(Duration(limit_time, tstart))) @@
             ("violate" :> Violate(limit_time, self.tstop)) @@ self1
        ELSE ("limit_time" :> None) @@ ("limit_date" :> None) @@
             ("duration" :> None) @@ ("violate" :> FALSE) @@ self1

\* the limit-crossing scan and its report (lines 667-694)
CTI_scan(self, tstart) ==
    LET limit == limits[self.name]
        mvals == self.model.table[self.name]
        times == self.model.table["times"]
        viols == Viols(mvals, limit)
        idx   == np_where_first(viols)
        limit_time == times[idx]
        self1 == SetAttr(self, "limit", limit)
    IN  IF np_any(viols)
        THEN ("limit_time" :> Some(limit_time)) @@
             ("limit_date" :> Some(secs2date(limit_time))) @@
             ("duration" :> Some(Duration(limit_time, tstart))) @@
             ("violate" :> Violate(limit_time, self.tstop)) @@ self1
        ELSE ("limit_time" :> None) @@ ("limit_date" :> None) @@
             ("duration" :> None) @@ ("violate" :> FALSE) @@ self1

\* the simulation stopped at the nominal stop
CTI_tend_nominal(tstart, tstop) == tstop

\* tend = tstop + 0.5 * (tstop - tstart), for runs a whole number of
\* seconds long whose half is whole
CTI_tend(tstart, tstop) == tstop + (tstop - tstart) \div 2

CTI_init(a, w) ==
    LET datestart == a.tstart
        tstart == date2secs(a.tstart)
        tstop  == date2secs(a.tstop)
        datestop == secs2date(tstop)
        tend   == CTI_tend(tstart, tstop)
        dateend == secs2date(tend)
        self1  == ("vehicle_load" :> a.vehicle_load) @@
                  ("datestart" :> datestart) @@ ("datestop" :> datestop) @@
                  ("tstart" :> tstart) @@ ("tstop" :> tstop) @@
                  ("dateend" :> dateend) @@ ("T_init" :> a.T_init)
        states == IF a.vehicle_load = None
                  THEN CTI_plain_states(a, self1, tend)
                  ELSE CTI_load_states(a, w, tstop)
        calls0 == IF a.vehicle_load = None THEN <<>>
                  ELSE <<"States.from_load_page">>
        r == TMR_init(self1,
                 [name |-> a.name, tstart |-> datestart, tstop |-> dateend,
                  states |-> Some(states), T_init |-> Some(a.T_init),
                  use_msids |-> TRUE, model_spec |-> a.model_spec,
                  include_bad_times |-> FALSE, ephemeris |-> None], w)
        calls == calls0 \o r.calls
        cti_run_idxs == {i \in 1..Len(states["tstart"]) :
                            states["tstart"][i] < tstop}
    IN  IF r.exc # NoExc
        THEN [self |-> r.self, exc |-> r.exc, calls |-> calls]
        ELSE IF a.vehicle_load # None /\ cti_run_idxs = {}
        THEN [self |-> r.self, exc |-> "ValueError", calls |-> calls]
        ELSE IF a.dh_heater \notin {0, 1} \/ a.name \notin DOMAIN limits
        THEN [self |-> r.self, exc |-> "KeyError", calls |-> calls]
        ELSE [self |-> CTI_scan(r.self, tstart), exc |-> NoExc, calls |-> calls]

\* the segment's upper sample taken as its base
np_interp_upper(t, xp, fp) ==
    LET n == Len(xp)
    IN  IF t <= xp[1] THEN <<fp[1], 1>>
        ELSE IF t >= xp[n] THEN <<fp[n], 1>>
        ELSE LET j == CHOOSE k \in 1..(n - 1) : xp[k] <= t /\ t < xp[k + 1]
                 den == xp[j + 1] - xp[j]
             IN  <<fp[j + 1] * den + (fp[j + 1] - fp[j]) * (t - xp[j]), den>>

\* np.interp(t, xp, fp) for increasing xp: fp at the ends outside the
\* range, and on the segment xp[j] <= t < xp[j+1] the value
\* fp[j] + (fp[j+1] - fp[j]) / (xp[j+1] - xp[j]) * (t - xp[j]), as the
\* rational <<numerator, denominator>>
np_interp(t, xp, fp) ==
    LET n == Len(xp)
    IN  IF t <= xp[1] THEN <<fp[1], 1>>
        ELSE IF t >= xp[n] THEN <<fp[n], 1>>
        ELSE LET j == CHOOSE k \in 1..(n - 1) : xp[k] <= t /\ t < xp[k + 1]
                 den == xp[j + 1] - xp[j]
             IN  <<fp[j] * den + (fp[j + 1] - fp[j]) * (t - xp[j]), den>>

\* SimulateCTIRun.get_temp_at_time(t)
CTI_get_temp_at_time(self, t) ==
    np_interp(t + self.tstart, self.model.table["times"],
              self.model.table[self.name])

---------------------------------------------------------------------------
(* ModelDataset and the constructors that read models from files and load  *)
(* reviews.  A Model is [kind |-> "Model", table, keys]; telemetry is      *)
(* [source, size, keys], the size being the length of its time array and   *)
(* the keys the MSIDs it holds.                                            *)

\* the names of a list, as a set
Names(list) == {list[i] : i \in 1..Len(list)}

\* acispy.utils.ensure_list: a string, held as Some(string), becomes a list
\* of one
ensure_list(x) == IF x.kind = "str" THEN <<x.v[1]>> ELSE x.v

\* the component names in the order np.unique sorts them
SortedNames ==
    <<"1deamzt", "1dpamzt", "1pdeaat", "fptemp_11", "tmp_bep_pcb",
      "tmp_fep1_actel", "tmp_fep1_mong">>

\* list(np.unique(comps))
np_unique(comps) ==
    LET InComps(c) == \E i \in 1..Len(comps) : comps[i] = c
    IN  SelectSeq(SortedNames, InComps)

\* Model.from_load_file(temp_file): the model table the file holds
Model_from_load_file(temp_file, w) == w.files[temp_file]

\* Model.join_models(model_list): one Model of all the components
Model_join_models(model_list) ==
    LET n == Len(model_list)
        Holder(k) == CHOOSE i \in 1..n : k \in DOMAIN model_list[i].table
        allKeys == UNION {DOMAIN model_list[i].table : i \in 1..n}
    IN  [kind  |-> "Model",
         table |-> [k \in allKeys |-> model_list[Holder(k)].table[k]],
         keys  |-> [i \in 1..n |-> model_list[i].keys[1]]]

\* "model%d" % i, for the files in the order given
model_number == <<"model0", "model1", "model2", "model3", "model4">>

\* every set of files that is not all one component joined as if all differed
TMFF_how_lenient(n_comps, n_files) ==
    IF n_comps = 1 THEN "same" ELSE "join"

\* lines 170-176: what to do with several files, from the number of
\* distinct first components and the number of files
TMFF_how(n_comps, n_files) ==
    IF n_comps = 1 THEN "same"
    ELSE IF n_comps = n_files THEN "join"
    ELSE "RuntimeError"

\* the telemetry taken as it comes, its length not looked at
GetMsids_unchecked(get_msids, tl_file, comps, times, w) ==
    IF ~get_msids
    THEN [exc |-> NoExc,
          msids |-> [source |-> "empty", size |-> 0, keys |-> {}],
          calls |-> <<>>]
    ELSE IF tl_file # None
    THEN [exc |-> NoExc,
          msids |-> [source |-> "tracelog", size |-> w.tracelog_size,
                     keys |-> w.tracelog_keys],
          calls |-> <<"MSIDs.from_tracelog">>]
    ELSE [exc |-> NoExc,
          msids |-> [source |-> "database", size |-> w.archive_size,
                     keys |-> Names(comps)],
          calls |-> <<"MSIDs.from_database">>]

\* lines 178-191, the same in both constructors: the telemetry, and the
\* check of its length against the model's
GetMsids(get_msids, tl_file, comps, times, w) ==
    IF ~get_msids
    THEN [exc |-> NoExc,
          msids |-> [source |-> "empty", size |-> 0, keys |-> {}],
          calls |-> <<>>]
    ELSE IF tl_file # None
    THEN [exc |-> NoExc,
          msids |-> [source |-> "tracelog", size |-> w.tracelog_size,
                     keys |-> w.tracelog_keys],
          calls |-> <<"MSIDs.from_tracelog">>]
    ELSE [exc |-> IF w.archive_size # Len(times) THEN "RuntimeError" ELSE NoExc,
          msids |-> [source |-> "database", size |-> w.archive_size,
                     keys |-> Names(comps)],
          calls |-> <<"MSIDs.from_database">>]

\* the states write_model_and_data maps to the times of the telemetry
states_to_map ==
    <<"vid_board", "pcad_mode", "pitch", "clocking", "simpos",
      "ccd_count", "fep_count", "off_nominal_roll", "power_cmd">>

\* the columns of a states table: the mapped states and the span of each
\* state
StateColumns ==
    Names(states_to_map) \cup {"tstart", "tstop", "datestart", "datestop"}

\* "diff_%s" % msid
diff_name ==
    ("1deamzt" :> "diff_1deamzt") @@ ("1dpamzt" :> "diff_1dpamzt") @@
    ("1pdeaat" :> "diff_1pdeaat") @@ ("fptemp_11" :> "diff_fptemp_11") @@
    ("tmp_fep1_mong" :> "diff_tmp_fep1_mong") @@
    ("tmp_fep1_actel" :> "diff_tmp_fep1_actel") @@
    ("tmp_bep_pcb" :> "diff_tmp_bep_pcb")

\* Dataset.__init__(msids, states, model): the three tables, and no derived
\* field yet
Dataset_init(msids, states, model) ==
    ("msids" :> msids) @@ ("states" :> states) @@ ("model" :> model) @@
    ("derived_field_list" :> {})

\* ThermalModelFromFiles.__init__(temp_files, state_file, get_msids, tl_file)
TMFF_init(a, w) ==
    LET temp_files == ensure_list(a.temp_files)
        n      == Len(temp_files)
        model_list == [i \in 1..n |-> Model_from_load_file(temp_files[i], w)]
        reads  == [i \in 1..n |-> "Model.from_load_file"]
        first  == [i \in 1..n |-> model_list[i].keys[1]]
        comps  == IF n = 1 THEN model_list[1].keys ELSE np_unique(first)
        times  == model_list[1].table["times"]
        how    == IF n = 1 THEN "one" ELSE TMFF_how(Len(comps), n)
        models == IF how = "one" THEN model_list[1]
                  ELSE IF how = "same"
                  THEN [kind |-> "dict", models |-> model_list,
                        keys |-> [i \in 1..n |-> model_number[i]]]
                  ELSE Model_join_models(model_list)
        states == [source |-> a.state_file, keys |-> StateColumns]
        calls1 == reads \o <<"States.from_load_file">>
        m      == GetMsids(a.get_msids, a.tl_file, comps, times, w)
    IN  IF how = "RuntimeError"
        THEN [self |-> NoAttrs, exc |-> "RuntimeError", calls |-> reads]
        ELSE IF m.exc # NoExc
        THEN [self |-> NoAttrs, exc |-> m.exc, calls |-> calls1 \o m.calls]
        ELSE [self |-> Dataset_init(m.msids, states, models), exc |-> NoExc,
              calls |-> calls1 \o m.calls]

AllComps ==
    <<"1deamzt", "1dpamzt", "1pdeaat", "fptemp_11",
      "tmp_fep1_mong", "tmp_fep1_actel", "tmp_bep_pcb">>

\* ThermalModelFromLoad.__init__(load, comps, get_msids, time_range,
\* tl_file, states_comp)
TMFL_init(a, w) ==
    LET comps  == IF a.comps = None THEN AllComps ELSE a.comps[1]
        model  == w.page_model
        states == [source |-> <<a.load, a.states_comp>>, keys |-> StateColumns]
        calls1 == <<"Model.from_load_page", "States.from_load_page">>
        times  == model.table["times"]
        m      == GetMsids(a.get_msids, a.tl_file, comps, times, w)
    IN  IF m.exc # NoExc
        THEN [self |-> NoAttrs, exc |-> m.exc, calls |-> calls1 \o m.calls]
        ELSE [self |-> Dataset_init(m.msids, states, model), exc |-> NoExc,
              calls |-> calls1 \o m.calls]

\* Dataset.field_list: the (type, name) pairs the dataset answers to, those
\* of its three tables and the derived ones
Dataset_field_list(self) ==
    {<<"msids", k>> : k \in self.msids.keys} \cup
    {<<"states", k>> : k \in self.states.keys} \cup
    {<<"model", k>> : k \in Names(self.model.keys)} \cup
    self.derived_field_list

\* Dataset.map_state_to_msid(state, msid): the state, at the times of the
\* MSID, becomes the derived field ("msids", state)
Dataset_map_state_to_msid(self, state, msid) ==
    SetAttr(self, "derived_field_list",
            self.derived_field_list \cup {<<"msids", state>>})

\* Dataset.add_diff_data_model_field(msid): telemetry minus model becomes
\* the derived field ("model", "diff_<msid>")
Dataset_add_diff_data_model_field(self, msid) ==
    SetAttr(self, "derived_field_list",
            self.derived_field_list \cup {<<"model", diff_name[msid]>>})

\* Dataset.write_msids(filename, fields, overwrite): the fields as columns
\* of a table, an existing file kept unless overwrite is set
Dataset_write_msids(self, filename, fields, overwrite, files) ==
    IF os_path_exists(filename, files) /\ ~overwrite
    THEN [exc |-> "IOError", fs |-> files]
    ELSE [exc |-> NoExc,
          fs |-> (filename :> [kind |-> "fields", fields |-> fields]) @@ files]

\* Numbers in the tables read from and written to files are decimal
\* fixed point, in thousandths.  A numeral is the text of a number: its
\* digits as an integer and the number of decimal places, so that 30.12 is
\* [digits |-> 3012, places |-> 2].  A cell of a written table is a numeral
\* [kind |-> "num", ..] or a text [kind |-> "text", v].
Pow10(n) == IF n = 0 THEN 1 ELSE IF n = 1 THEN 10 ELSE IF n = 2 THEN 100 ELSE 1000

\* x thousandths to the nearest hundredth
Round2(x) == IF x >= 0 THEN (x + 5) \div 10 ELSE -((5 - x) \div 10)

\* '%.2f' % x
fmt_2f(x) == [kind |-> "num", digits |-> Round2(x), places |-> 2]

\* str(x) of a float: the shortest text that reads back as x, with at least
\* one decimal place
py_str(x) ==
    LET places == IF x % 10 # 0 THEN 3 ELSE IF x % 100 # 0 THEN 2 ELSE 1
    IN  [kind |-> "num", digits |-> x \div Pow10(3 - places), places |-> places]

\* float(text) of a numeral, in thousandths
py_float(cell) == cell.digits * Pow10(3 - cell.places)

\* the printer Ska.Numpy.pprint uses for a column: fmt is documented as a
\* dict of colname: fmt_spec, and a column it has no entry for is printed
\* with str
pprint_get(fmt, colname) ==
    IF fmt.kind = "dict" /\ colname \in DOMAIN fmt.v THEN fmt.v[colname]
    ELSE "str"

\* Ska.Numpy.pprint(recarray, fmt, out): the header of names and the cells
\* of every column.  A column is [kind, data], kind "float" or "str".
\* Given a fmt that is no dict, lib.pprint_fmt says what the installed
\* library does: it finds no entry under any column name ("str"), or it
\* raises when it reads fmt as a dict ("TypeError").
Ska_pprint(names, arrays, fmt, lib) ==
    LET Cell(j, i) ==
            IF arrays[j].kind = "str"
            THEN [kind |-> "text", v |-> arrays[j].data[i]]
            ELSE IF pprint_get(fmt, names[j]) = "%.2f"
            THEN fmt_2f(arrays[j].data[i])
            ELSE py_str(arrays[j].data[i])
    IN  IF fmt.kind # "dict" /\ lib.pprint_fmt = "TypeError"
        THEN [exc |-> "TypeError", text |-> [kind |-> "empty"]]
        ELSE [exc |-> NoExc,
              text |-> [kind  |-> "table", names |-> names,
                        cells |-> [j \in 1..Len(names) |->
                                     [i \in 1..Len(arrays[j].data) |->
                                         Cell(j, i)]]]]

\* astropy.io.ascii.read(filename) of a table pprint wrote: the names of
\* the header, and every column of numerals as floats
ascii_read(text) ==
    [names   |-> text.names,
     columns |-> [j \in 1..Len(text.names) |->
                    [i \in 1..Len(text.cells[j]) |->
                        IF text.cells[j][i].kind = "num"
                        THEN [kind |-> "float", v |-> py_float(text.cells[j][i])]
                        ELSE [kind |-> "str", v |-> text.cells[j][i].v]]]]

\* lines 79-90: the names and arrays of the table, and the formats
WriteModelTable(self) ==
    LET keys  == self.model.keys
        times == self.model.table["times"]
        dates == [i \in 1..Len(times) |-> secs2date(times[i])]
    IN  [names  |-> <<"time", "date">> \o keys,
         arrays |-> <<[kind |-> "float", data |-> times],
                      [kind |-> "str", data |-> dates]>> \o
                    [i \in 1..Len(keys) |->
                        [kind |-> "float", data |-> self.model.table[keys[i]]]],
         fmt    |-> [kind |-> "set",
                     v |-> {<<n, "%.2f">> :
                               n \in ({"time"} \cup Names(keys)) \ {"date"}}]]

\* the check of overwrite turned round
write_model_clobber(self, filename, overwrite, files, lib) ==
    LET t == WriteModelTable(self)
        r == Ska_pprint(t.names, t.arrays, t.fmt, lib)
    IN  IF os_path_exists(filename, files) /\ overwrite
        THEN [exc |-> "IOError", fs |-> files]
        ELSE [exc |-> r.exc, fs |-> (filename :> r.text) @@ files]

\* ModelDataset.write_model(filename, overwrite): open(filename, 'w') makes
\* the file or empties it, and pprint writes the table to it
ModelDataset_write_model(self, filename, overwrite, files, lib) ==
    LET t == WriteModelTable(self)
        r == Ska_pprint(t.names, t.arrays, t.fmt, lib)
    IN  IF os_path_exists(filename, files) /\ ~overwrite
        THEN [exc |-> "IOError", fs |-> files]
        ELSE [exc |-> r.exc, fs |-> (filename :> r.text) @@ files]

RECURSIVE WMD_map_states(_, _, _)
\* lines 114-116, from state number j on: st is [self, out]
WMD_map_states(st, msid, j) ==
    IF j > Len(states_to_map) THEN st
    ELSE WMD_map_states(
             [self |-> Dataset_map_state_to_msid(st.self, states_to_map[j], msid),
              out  |-> Append(st.out, <<"msids", states_to_map[j]>>)],
             msid, j + 1)

RECURSIVE WMD_loop(_, _, _)
\* lines 112-120, from key number i on
WMD_loop(st, keys, i) ==
    IF i > Len(keys) THEN st
    ELSE LET msid == keys[i]
             st1  == IF i = 1 THEN WMD_map_states(st, msid, 1) ELSE st
             st2  == [self |-> st1.self,
                      out  |-> Append(st1.out, <<"model", msid>>)]
             st3  == IF <<"msids", msid>> \in Dataset_field_list(st2.self)
                     THEN [self |-> Dataset_add_diff_data_model_field(st2.self, msid),
                           out  |-> st2.out \o <<<<"msids", msid>>,
                                                 <<"model", diff_name[msid]>>>>]
                     ELSE st2
         IN  WMD_loop(st3, keys, i + 1)

\* the mapped states put into the telemetry table itself
write_model_and_data_into_msids(self, filename, overwrite, files) ==
    LET st == WMD_loop([self |-> self, out |-> <<>>], self.model.keys, 1)
        r  == Dataset_write_msids(st.self, filename, st.out, overwrite, files)
        msids == [st.self.msids EXCEPT !.keys = @ \cup Names(states_to_map)]
    IN  [exc |-> r.exc, fs |-> r.fs, self |-> SetAttr(st.self, "msids", msids)]

\* ModelDataset.write_model_and_data(filename, overwrite): the result is
\* [exc, fs, self], self being the dataset as the call leaves it
ModelDataset_write_model_and_data(self, filename, overwrite, files) ==
    LET st == WMD_loop([self |-> self, out |-> <<>>], self.model.keys, 1)
        r  == Dataset_write_msids(st.self, filename, st.out, overwrite, files)
    IN  [exc |-> r.exc, fs |-> r.fs, self |-> st.self]

---------------------------------------------------------------------------
(* Bounds and input sets *)

\* the longest series the world returns
MaxLen == 3

\* the longest run is 2 * MaxHalf seconds
MaxHalf == 1

StartTimes == {4}

\* sample temperatures relative to the limit: below, at, above
TempOffsets == {-1, 0, 1}

\* the temperature sample values of a model; the focal plane has no limit
Temps(name) ==
    IF name \in DOMAIN limits
    THEN {limits[name] + d : d \in TempOffsets}
    ELSE {-1190 + d : d \in TempOffsets}

\* strictly increasing sequences of at most MaxLen elements of lo..hi
IncSeqs(lo, hi) ==
    UNION {{s \in [1..n -> lo..hi] : \A i \in 1..(n - 1) : s[i] < s[i + 1]} :
           n \in 1..MaxLen}

SkaDir == <<"ska">>

Dir == [kind |-> "dir"]

Json == [kind |-> "json"]

NoFiles == [p \in {} |-> Dir]

\* a file system holding $SKA and every model's default spec under it
SkaFs ==
    LET specs == {DefaultSpecPath(short_name[n], Some(SkaDir), SkaDir :> Dir) :
                     n \in DOMAIN short_name}
    IN  [p \in {SkaDir} \cup specs |-> IF p = SkaDir THEN Dir ELSE Json]

\* The world of a CTI run simulated over [tstart, tend]: xija returns a
\* series sampled inside the interval it was asked to simulate.
CTIWorlds(name, tstart, tend) ==
    UNION {{[environ_SKA |-> environ_SKA, fs |-> fs,
             xija_times |-> ts, xija_mvals |-> vs,
             dpa_power |-> (name = "1dpamzt"), bad_times_indices |-> {},
             msids_size |-> Len(ts), telem_vals |-> vs,
             telem_mask |-> [i \in 1..Len(ts) |-> TRUE], rolls |-> <<>>,
             load_states |-> NoAttrs] :
                vs \in [1..Len(ts) -> Temps(name)]} :
           ts \in IncSeqs(tstart, tend)}

CTINames == {"1deamzt", "1dpamzt", "1pdeaat", "tmp_bep_pcb", "fptemp_11"}

CTIArgs ==
    {[name |-> n, tstart |-> secs2date(t0), tstop |-> secs2date(t0 + 2 * h),
      T_init |-> 140, pitch |-> 150, ccd_count |-> 5, vehicle_load |-> None,
      simpos |-> -99616, off_nominal_roll |-> 0, dh_heater |-> 0,
      clocking |-> 1, model_spec |-> None] :
        n \in CTINames, t0 \in StartTimes, h \in 0..MaxHalf}

---------------------------------------------------------------------------
(* The CTI-run state machine *)

CtiIdle ==
    /\ cti = NoAttrs
    /\ cti_exc = NoExc
    /\ cti_calls = <<>>
    /\ cti_ret = None
    /\ cti_args = None

TmrIdle ==
    /\ tmr = NoAttrs
    /\ tmr_exc = NoExc
    /\ tmr_calls = <<>>
    /\ tmr_args = None
    /\ fj_ret = None
    /\ tmr_ret = None

DsIdle ==
    /\ ds = NoAttrs
    /\ ds_exc = NoExc
    /\ ds_calls = <<>>
    /\ ds_args = None
    /\ wr = None

MdlIdle ==
    /\ mdl = None
    /\ rd = None

InitCTI ==
    /\ CtiIdle
    /\ TmrIdle
    /\ DsIdle
    /\ MdlIdle
    /\ environ_SKA = Some(SkaDir)
    /\ fs \in {SkaFs, NoFiles}

\* a run object whose constructor returned
Constructed == HasAttr(cti, "violate") /\ cti_exc = NoExc

\* The object is constructed once.
SimulateCTIRun ==
    /\ cti = NoAttrs
    /\ \E a \in CTIArgs :
         \E w \in CTIWorlds(a.name, date2secs(a.tstart),
                            date2secs(a.tstop)
                              + (date2secs(a.tstop) - date2secs(a.tstart)) \div 2) :
             LET r == CTI_init(a, w)
             IN  /\ cti' = r.self
                 /\ cti_exc' = r.exc
                 /\ cti_calls' = r.calls
                 /\ cti_ret' = None
                 /\ cti_args' = Some([a |-> a, load_states |-> w.load_states,
                                      rolls |-> w.rolls])
                 /\ UNCHANGED <<envVars, tmrVars, dsVars, mdlVars>>

GetTempAtTime ==
    /\ Constructed
    /\ \E t \in (-1)..(date2secs(cti.dateend) - cti.tstart + 1) :
           cti_ret' = Some([op |-> "get_temp_at_time", t |-> t,
                            value |-> CTI_get_temp_at_time(cti, t)])
    /\ UNCHANGED <<cti, cti_exc, cti_calls, cti_args>>
    /\ UNCHANGED <<envVars, tmrVars, dsVars, mdlVars>>

\* self.model.get_values(time): the interpolation brackets the time between
\* two samples, so the table holds at least two
GetValues ==
    /\ Constructed
    /\ Len(cti.model.table["times"]) >= 2
    /\ \E t \in (cti.tstart - 1)..(date2secs(cti.dateend) + 1) :
           cti_ret' = Some([op |-> "get_values", t |-> t,
                            value |-> Model_get_values(cti.model, t)])
    /\ UNCHANGED <<cti, cti_exc, cti_calls, cti_args>>
    /\ UNCHANGED <<envVars, tmrVars, dsVars, mdlVars>>

NextCTI == SimulateCTIRun \/ GetTempAtTime \/ GetValues

SpecCTI == InitCTI /\ [][NextCTI]_vars

---------------------------------------------------------------------------
(* Properties of the limit-crossing scan *)

\* the constructed run's model series and limit
RunTimes == cti.model.table["times"]

RunVals == cti.model.table[cti.name]

RunLimit == limits[cti.name]

\* index i is the lowest one whose sample exceeds the limit
IsFirstCrossing(i) ==
    /\ RunVals[i] > RunLimit
    /\ \A j \in 1..(i - 1) : RunVals[j] <= RunLimit

\* C1: when some sample exceeds the limit, limit_time is the model time of
\* the lowest-index sample that does, however many later samples exceed it.
C1_FirstCrossing ==
    Constructed =>
        \A i \in 1..Len(RunVals) :
            IsFirstCrossing(i) => cti.limit_time = Some(RunTimes[i])

\* a run with two samples over the limit
C1_Witness ==
    /\ Constructed
    /\ \E i, k \in 1..Len(RunVals) :
           i < k /\ RunVals[i] > RunLimit /\ RunVals[k] > RunLimit
    /\ cti.limit_time # None

\* C2: when every sample is below the limit no crossing is reported:
\* limit_time, limit_date and duration are None and violate is False.
C2_NoCrossing ==
    (Constructed /\ \A i \in 1..Len(RunVals) : RunVals[i] < RunLimit) =>
        /\ cti.limit_time = None
        /\ cti.limit_date = None
        /\ cti.duration = None
        /\ cti.violate = FALSE

\* a run of several samples, all below the limit
C2_Witness ==
    /\ Constructed
    /\ Len(RunVals) >= 2
    /\ \A i \in 1..Len(RunVals) : RunVals[i] < RunLimit
    /\ cti.limit_time = None

\* C3: violate is True exactly when a crossing exists and its time is
\* before the nominal stop time tstop; a first crossing at or after tstop
\* leaves violate False.
C3_ViolateIffBeforeStop ==
    Constructed =>
        (cti.violate <=>
            (cti.limit_time # None /\ cti.limit_time[1] < cti.tstop))

\* a first crossing inside the extended window, at or after tstop
C3_Witness ==
    /\ Constructed
    /\ cti.limit_time # None
    /\ cti.limit_time[1] >= cti.tstop
    /\ ~cti.violate

\* C4: the comparison is strict: a series whose maximum equals the limit
\* has no crossing, and a series that touches the limit at i and first
\* exceeds it at k > i reports k.
C4_StrictComparison ==
    Constructed =>
        /\ (\A i \in 1..Len(RunVals) : RunVals[i] <= RunLimit)
              => cti.limit_time = None
        /\ \A i, k \in 1..Len(RunVals) :
              (i < k /\ RunVals[i] = RunLimit /\ IsFirstCrossing(k))
                  => cti.limit_time = Some(RunTimes[k])

\* a series that touches the limit and exceeds it later
C4_Witness ==
    /\ Constructed
    /\ \E i, k \in 1..Len(RunVals) :
           i < k /\ RunVals[i] = RunLimit /\ IsFirstCrossing(k)
    /\ cti.limit_time # None

\* C5: when a crossing is found, duration (thousandths of a ks) is the
\* time from the run start to the crossing, limit_time - tstart in seconds,
\* and it is never negative.
C5_Duration ==
    (Constructed /\ cti.limit_time # None) =>
        /\ cti.duration = Some(cti.limit_time[1] - cti.tstart)
        /\ cti.duration[1] >= 0

\* a crossing after the start of a run that starts after time zero
C5_Witness ==
    /\ Constructed
    /\ cti.limit_time # None
    /\ cti.tstart > 0
    /\ cti.duration # None
    /\ cti.duration[1] > 0

\* the rational q equals the integer v
RatEq(q, v) == q[1] = v * q[2] /\ q[2] # 0

---------------------------------------------------------------------------
(* The model-spec lookup and the ThermalModelRunner constructor *)

CustomSpec == <<"my_model_spec.json">>

\* model names: two known ones and the docstring's "dea", which short_name
\* does not know
RunnerNames == {"1deamzt", "1pdeaat", "dea"}

RunnerPaths ==
    {SkaDir, CustomSpec,
     <<"ska", "share", "dea", "dea", "_model_spec.json">>,
     <<"ska", "share", "psmc_check", "psmc", "_model_spec.json">>,
     <<"cwd", "dea", "_model_spec.json">>,
     <<"cwd", "psmc", "_model_spec.json">>}

FileSystems(paths) ==
    {[p \in ps |-> IF p = SkaDir THEN Dir ELSE Json] : ps \in SUBSET paths}

\* one commanded state over the simulated interval
RunnerStates(with_times) ==
    LET base == ("ccd_count" :> <<5>>) @@ ("fep_count" :> <<5>>) @@
                ("clocking" :> <<1>>) @@ ("vid_board" :> <<1>>) @@
                ("pitch" :> <<150>>) @@ ("simpos" :> <<-99616>>) @@
                ("datestart" :> <<secs2date(4)>>) @@
                ("datestop" :> <<secs2date(8)>>) @@
                ("off_nominal_roll" :> <<0>>)
    IN  IF with_times THEN ("tstart" :> <<4>>) @@ ("tstop" :> <<8>>) @@ base
        ELSE base

RunnerArgs ==
    {[name |-> n, tstart |-> secs2date(4), tstop |-> secs2date(8),
      states |-> st, T_init |-> ti, use_msids |-> um, model_spec |-> ms,
      include_bad_times |-> ib, ephemeris |-> None] :
        n \in RunnerNames,
        st \in {None, Some(RunnerStates(TRUE)), Some(RunnerStates(FALSE))},
        ti \in {None, Some(140)}, um \in BOOLEAN,
        ms \in {None, Some(CustomSpec)}, ib \in BOOLEAN}

RunnerWorld ==
    [environ_SKA |-> environ_SKA, fs |-> fs,
     xija_times |-> <<5, 6, 7>>, xija_mvals |-> <<140, 150, 160>>,
     dpa_power |-> FALSE, bad_times_indices |-> {<<1, 2>>},
     msids_size |-> 3, telem_vals |-> <<141, 149, 162>>,
     telem_mask |-> <<TRUE, TRUE, TRUE>>, rolls |-> <<0>>, telem_mean |-> 150,
     db_states |-> RunnerStates(TRUE), load_states |-> NoAttrs]

InitRunner ==
    /\ CtiIdle
    /\ TmrIdle
    /\ DsIdle
    /\ MdlIdle
    /\ environ_SKA \in {None, Some(SkaDir)}
    /\ fs \in FileSystems(RunnerPaths)

FindJson ==
    /\ \E n \in RunnerNames, ms \in {None, Some(CustomSpec)} :
           LET r == find_json(n, ms, environ_SKA, fs)
           IN  fj_ret' = Some([name |-> n, model_spec |-> ms,
                               exc |-> r.exc, value |-> r.value])
    /\ UNCHANGED <<ctiVars, envVars, dsVars, mdlVars>>
    /\ UNCHANGED <<tmr, tmr_exc, tmr_calls, tmr_args, tmr_ret>>

\* The object is constructed once.
ThermalModelRunner ==
    /\ tmr_args = None
    /\ \E a \in RunnerArgs :
           LET r == TMR_init(NoAttrs, a, RunnerWorld)
           IN  /\ tmr' = r.self
               /\ tmr_exc' = r.exc
               /\ tmr_calls' = r.calls
               /\ tmr_args' = Some(a)
    /\ UNCHANGED <<ctiVars, envVars, dsVars, mdlVars, fj_ret, tmr_ret>>

NextRunner == FindJson \/ ThermalModelRunner

SpecRunner == InitRunner /\ [][NextRunner]_vars

\* the path find_json is to look at, for a name short_name knows
ResolvedSpec(name, model_spec) ==
    LET short == short_name[name]
    IN  IF model_spec # None THEN model_spec[1]
        ELSE IF environ_SKA # None /\ environ_SKA[1] \in DOMAIN fs
        THEN environ_SKA[1] \o
             <<"share", IF short = "psmc" THEN "psmc_check" ELSE short,
               short, "_model_spec.json">>
        ELSE <<"cwd", short, "_model_spec.json">>

SpecMissing(name, model_spec) ==
    /\ name \in DOMAIN short_name
    /\ ResolvedSpec(name, model_spec) \notin DOMAIN fs

C18_InitialTemperature ==
    tmr_args # None =>
        LET a == tmr_args[1]
        IN  /\ (a.T_init = None /\ ~a.use_msids) =>
                    /\ tmr_exc = "RuntimeError"
                    /\ ~HasAttr(tmr, "model_spec")
                    /\ ~HasAttr(tmr, "xija_model")
                    /\ \A i \in 1..Len(tmr_calls) :
                           tmr_calls[i] \notin {"fetch.MSID", "find_json",
                                                "xija.make", "xija.calc"}
            /\ a.T_init # None =>
                    /\ tmr_exc # "RuntimeError"
                    /\ \A i \in 1..Len(tmr_calls) :
                           tmr_calls[i] # "fetch.MSID"
                    /\ HasAttr(tmr, "xija_model") =>
                           tmr.xija_model.T_init = a.T_init[1]

\* a runner without T_init or telemetry, for a model whose specification
\* is in place
C18_Witness ==
    /\ tmr_args # None
    /\ tmr_args[1].T_init = None
    /\ ~tmr_args[1].use_msids
    /\ tmr_args[1].name \in DOMAIN short_name
    /\ ~SpecMissing(tmr_args[1].name, tmr_args[1].model_spec)
    /\ tmr_exc = "RuntimeError"

---------------------------------------------------------------------------
(* Datasets from files and load reviews, and writing them *)

\* the most temperature files given at once
MaxFiles == 3

TempFileNames == {"t1.dat", "t2.dat", "t3.dat"}

FileComps == {"1deamzt", "1dpamzt"}

\* a temperatures.dat table of one component, n samples long; times and
\* temperatures in thousandths, the temperatures with three decimals that
\* are no tie between two hundredths
FileModel(comp, n) ==
    [kind  |-> "Model",
     table |-> ("times" :> [i \in 1..n |-> 1000 * (10 + i)]) @@
               (comp :> [i \in 1..n |-> 30120 + i]),
     keys  |-> <<comp>>]

\* the length of every model table read here
ModelLen == 2

\* the worlds: what each file holds, and how long the telemetry of the
\* archive and of the tracelog are
DatasetWorlds ==
    {[files |-> [f \in TempFileNames |-> FileModel(cf[f], ModelLen)],
      page_model |-> FileModel("1deamzt", ModelLen),
      archive_size |-> asz, tracelog_size |-> tsz, tracelog_keys |-> tk] :
        cf \in [TempFileNames -> FileComps],
        asz \in {ModelLen - 1, ModelLen}, tsz \in {ModelLen, ModelLen + 1},
        tk \in {{"1deamzt"}, {"1dpamzt"}}}

FileLists ==
    UNION {[1..n -> TempFileNames] : n \in 1..MaxFiles}

FilesArgs ==
    {[temp_files |-> tf, state_file |-> "states.dat", get_msids |-> gm,
      tl_file |-> tl] :
        tf \in {[kind |-> "list", v |-> l] : l \in FileLists}
                 \cup {[kind |-> "str", v |-> Some("t1.dat")]},
        gm \in BOOLEAN, tl \in {None, Some("acis.tl")}}

LoadArgs ==
    {[load |-> "APR0416C", comps |-> Some(<<"1deamzt">>), get_msids |-> gm,
      time_range |-> None, tl_file |-> tl, states_comp |-> "DPA"] :
        gm \in BOOLEAN, tl \in {None, Some("acis.tl")}}

OutFile == <<"model.dat">>

OldFile == [kind |-> "old"]

InitDataset ==
    /\ CtiIdle
    /\ TmrIdle
    /\ DsIdle
    /\ MdlIdle
    /\ environ_SKA = None
    /\ fs \in {NoFiles, OutFile :> OldFile}

\* The object is constructed once.
ThermalModelFromFiles ==
    /\ ds_args = None
    /\ \E a \in FilesArgs, w \in DatasetWorlds :
           LET r == TMFF_init(a, w)
           IN  /\ ds' = r.self
               /\ ds_exc' = r.exc
               /\ ds_calls' = r.calls
               /\ ds_args' = Some([op |-> "files", a |-> a, w |-> w])
    /\ UNCHANGED <<ctiVars, envVars, tmrVars, mdlVars, wr>>

ThermalModelFromLoad ==
    /\ ds_args = None
    /\ \E a \in LoadArgs, w \in DatasetWorlds :
           LET r == TMFL_init(a, w)
           IN  /\ ds' = r.self
               /\ ds_exc' = r.exc
               /\ ds_calls' = r.calls
               /\ ds_args' = Some([op |-> "load", a |-> a, w |-> w])
    /\ UNCHANGED <<ctiVars, envVars, tmrVars, mdlVars, wr>>

\* the installed Ska.Numpy, by what its pprint does with a fmt that is no
\* dict
Libraries == {[pprint_fmt |-> f] : f \in {"str", "TypeError"}}

\* write_model on a dataset that holds one Model
WriteModelCall(filename, overwrite) ==
    /\ HasAttr(ds, "model")
    /\ ds.model.kind = "Model"
    /\ \E lib \in Libraries :
         LET r == ModelDataset_write_model(ds, filename, overwrite, fs, lib)
         IN  /\ fs' = r.fs
             /\ wr' = Some([op |-> "write_model", filename |-> filename,
                            overwrite |-> overwrite, exc |-> r.exc])
    /\ UNCHANGED <<ctiVars, tmrVars, mdlVars, environ_SKA>>
    /\ UNCHANGED <<ds, ds_exc, ds_calls, ds_args>>

WriteModel == \E overwrite \in BOOLEAN : WriteModelCall(OutFile, overwrite)

\* write_model_and_data on a dataset that holds one Model and the telemetry
\* of its first key, to whose times the states are mapped
WriteModelAndDataCall(filename, overwrite) ==
    /\ HasAttr(ds, "model")
    /\ ds.model.kind = "Model"
    /\ ds.model.keys[1] \in ds.msids.keys
    /\ LET r == ModelDataset_write_model_and_data(ds, filename, overwrite, fs)
       IN  /\ fs' = r.fs
           /\ ds' = r.self
           /\ wr' = Some([op |-> "write_model_and_data", filename |-> filename,
                          overwrite |-> overwrite, exc |-> r.exc])
    /\ UNCHANGED <<ctiVars, tmrVars, mdlVars, environ_SKA>>
    /\ UNCHANGED <<ds_exc, ds_calls, ds_args>>

WriteModelAndData ==
    \E overwrite \in BOOLEAN : WriteModelAndDataCall(OutFile, overwrite)

\* the table write_model wrote, read back
ReadTable ==
    /\ OutFile \in DOMAIN fs
    /\ fs[OutFile].kind = "table"
    /\ rd' = Some(ascii_read(fs[OutFile]))
    /\ UNCHANGED <<ctiVars, envVars, tmrVars, dsVars, mdl>>

NextDataset ==
    \/ ThermalModelFromFiles
    \/ ThermalModelFromLoad
    \/ WriteModel
    \/ WriteModelAndData
    \/ ReadTable

SpecDataset == InitDataset /\ [][NextDataset]_vars

\* the files a ThermalModelFromFiles call was given, and the number of
\* distinct first components in them
GivenFiles == ensure_list(ds_args[1].a.temp_files)

GivenComps ==
    {ds_args[1].w.files[GivenFiles[i]].keys[1] : i \in 1..Len(GivenFiles)}

Mismatched ==
    /\ ds_args # None
    /\ ds_args[1].op = "files"
    /\ Len(GivenFiles) >= 2
    /\ Cardinality(GivenComps) \notin {1, Len(GivenFiles)}

\* C7: ThermalModelFromFiles given two or more files whose first components
\* are neither all the same nor all different raises RuntimeError, before
\* the states file is read, and constructs no dataset.
C7_MismatchedFilesRaise ==
    Mismatched =>
        /\ ds_exc = "RuntimeError"
        /\ \A i \in 1..Len(ds_calls) : ds_calls[i] # "States.from_load_file"
        /\ ds = NoAttrs

\* three files of two components
C7_Witness ==
    /\ Mismatched
    /\ Len(GivenFiles) = 3
    /\ Cardinality(GivenComps) = 2
    /\ ds_exc = "RuntimeError"

\* C8: write_model on a file that exists with overwrite=False raises
\* IOError and leaves the file as it was; with overwrite=True, or when the
\* file does not exist, no IOError is raised and the file is written anew:
\* it no longer holds what it held, and holds the table whenever pprint
\* returns.
C8_WriteModelOverwrite ==
    [][\A overwrite \in BOOLEAN :
          WriteModelCall(OutFile, overwrite) =>
              IF OutFile \in DOMAIN fs /\ ~overwrite
              THEN wr'[1].exc = "IOError" /\ fs' = fs
              ELSE /\ wr'[1].exc # "IOError"
                   /\ OutFile \in DOMAIN fs'
                   /\ fs'[OutFile] # OldFile
                   /\ wr'[1].exc = NoExc =>
                         /\ fs'[OutFile].kind = "table"
                         /\ fs'[OutFile].names[1] = "time"]_vars

\* a refused write: the file that was there is still there
C8_Witness ==
    /\ wr # None
    /\ wr[1].op = "write_model"
    /\ wr[1].exc = "IOError"
    /\ ~wr[1].overwrite
    /\ OutFile \in DOMAIN fs
    /\ fs[OutFile] = OldFile

\* the length of the time array of the dataset's model
DsModelLen ==
    IF ds.model.kind = "Model" THEN Len(ds.model.table["times"])
    ELSE Len(ds.model.models[1].table["times"])

\* the length of the model's time array, and of the telemetry's, in the
\* world the constructor was called in
ArgsModelLen ==
    IF ds_args[1].op = "files"
    THEN Len(ds_args[1].w.files[GivenFiles[1]].table["times"])
    ELSE Len(ds_args[1].w.page_model.table["times"])

ArgsTelemetryLen ==
    IF ds_args[1].a.tl_file # None THEN ds_args[1].w.tracelog_size
    ELSE ds_args[1].w.archive_size

\* a constructor called with get_msids=True that came to fetch telemetry
\* whose length is not the model's
TelemetryMismatch ==
    /\ ds_args # None
    /\ ds_args[1].a.get_msids
    /\ ~Mismatched
    /\ ArgsTelemetryLen # ArgsModelLen

---------------------------------------------------------------------------
(* Model tables built from a xija model and from the web pages of a load   *)

\* the longest table a web page holds
MaxPage == 3

PageComps == {"1deamzt", "1dpamzt", "fptemp_11"}

\* the temperatures.dat table of one component's page, n rows long
PageTable(comp, n) ==
    ("time" :> [i \in 1..n |-> 10 + i]) @@
    ((IF comp = "fptemp_11" THEN "fptemp" ELSE comp) :>
        [i \in 1..n |-> 300 + i])

\* the web: each component's page holds a table of its own length
ModelWorlds ==
    {[pages |-> [comp \in PageComps |-> PageTable(comp, len[comp])]] :
        len \in [PageComps -> 1..MaxPage]}

ComponentArgs ==
    {[kind |-> "list", v |-> l] :
        l \in UNION {[1..n -> PageComps] : n \in 0..2}}
    \cup {[kind |-> "str", v |-> Some(c)] : c \in PageComps}

\* a xija model run over n times: every component's mvals are over
\* model.times
XijaModels ==
    {[times |-> [i \in 1..n |-> 10 + i],
      comp  |-> [k \in {"1deamzt", "dpa_power"} |-> [i \in 1..n |-> v + i]]] :
        n \in 1..MaxPage, v \in {300, 350}}

InitModel ==
    /\ CtiIdle
    /\ TmrIdle
    /\ DsIdle
    /\ MdlIdle
    /\ environ_SKA = None
    /\ fs = NoFiles

\* what mdl records: the call and the Model it returned
Built(pkg, op, args, exc, time, table, keys) ==
    Some([pkg |-> pkg, op |-> op, args |-> args, exc |-> exc,
          time |-> time, table |-> table, keys |-> keys])

ModelFromXija ==
    /\ \E x \in XijaModels,
          comps \in {<<"1deamzt">>, <<"1deamzt", "dpa_power">>} :
           LET m == Model_from_xija(x, comps)
           IN  mdl' = Built("acispy", "from_xija", comps, NoExc,
                            m.table["times"], m.table, m.keys)
    /\ UNCHANGED <<ctiVars, envVars, tmrVars, dsVars, rd>>

AcisModelFromXija ==
    /\ \E x \in XijaModels,
          comps \in {<<"1deamzt">>, <<"1deamzt", "dpa_power">>} :
           LET m == acis_Model_from_xija(x, comps)
           IN  mdl' = Built("acis", "from_xija", comps, NoExc,
                            m.time, m.table, m.keys)
    /\ UNCHANGED <<ctiVars, envVars, tmrVars, dsVars, rd>>

ModelFromLoad ==
    /\ \E c \in ComponentArgs, w \in ModelWorlds :
           LET m == Model_from_load("APR0416C", c, w)
           IN  mdl' = Built("acispy", "from_load", c, m.exc,
                            IF m.exc = NoExc THEN m.table["times"] ELSE <<>>,
                            m.table, m.keys)
    /\ UNCHANGED <<ctiVars, envVars, tmrVars, dsVars, rd>>

AcisModelFromLoad ==
    /\ \E c \in ComponentArgs, w \in ModelWorlds :
           LET m == acis_Model_from_load("APR0416C", c, w)
           IN  mdl' = Built("acis", "from_load", c, m.exc,
                            m.time, m.table, m.keys)
    /\ UNCHANGED <<ctiVars, envVars, tmrVars, dsVars, rd>>

NextModel ==
    \/ ModelFromXija
    \/ AcisModelFromXija
    \/ ModelFromLoad
    \/ AcisModelFromLoad

SpecModel == InitModel /\ [][NextModel]_vars

\* the component arrays of the Model last built
ComponentKeys == DOMAIN mdl[1].table \ {"times"}

\* C12: every component array of a Model built by from_xija or by from_load
\* has the length of the Model's time array, also when from_load fetches the
\* components from separate tables and takes the time array from the last.
C12_SharedTimeAxis ==
    (mdl # None /\ mdl[1].exc = NoExc) =>
        \A k \in ComponentKeys :
            Len(mdl[1].table[k]) = Len(mdl[1].time)

---------------------------------------------------------------------------
(* Dashboard plots of a ThermalModelRunner *)

\* the length of the series plotted
DashLen == 2

\* temperatures of telemetry and prediction, some more than two degrees
\* apart
DashTemps == {300, 330}

DashWorlds ==
    {[environ_SKA |-> environ_SKA, fs |-> fs,
      xija_times |-> [i \in 1..DashLen |-> 4 + i], xija_mvals |-> mv,
      dpa_power |-> FALSE, bad_times_indices |-> {<<0, 1>>},
      msids_size |-> DashLen, telem_vals |-> tv, telem_mask |-> tm,
      rolls |-> <<0>>, db_states |-> RunnerStates(TRUE),
      load_states |-> NoAttrs] :
        mv \in [1..DashLen -> DashTemps], tv \in [1..DashLen -> DashTemps],
        tm \in {[i \in 1..DashLen |-> TRUE], [i \in 1..DashLen |-> i # DashLen]}}

DashArgs ==
    {[name |-> n, tstart |-> secs2date(4), tstop |-> secs2date(8),
      states |-> Some(RunnerStates(TRUE)), T_init |-> Some(140),
      use_msids |-> um, model_spec |-> None, include_bad_times |-> ib,
      ephemeris |-> None] :
        n \in {"1deamzt", "fptemp_11"}, um \in BOOLEAN, ib \in BOOLEAN}

InitDash ==
    /\ CtiIdle
    /\ TmrIdle
    /\ DsIdle
    /\ MdlIdle
    /\ environ_SKA = Some(SkaDir)
    /\ fs = SkaFs

\* The object is constructed once.
ThermalModelRunnerDash ==
    /\ tmr_args = None
    /\ \E a \in DashArgs, w \in DashWorlds :
           LET r == TMR_init(NoAttrs, a, w)
           IN  /\ tmr' = r.self
               /\ tmr_exc' = r.exc
               /\ tmr_calls' = r.calls
               /\ tmr_args' = Some(a)
    /\ UNCHANGED <<ctiVars, envVars, dsVars, mdlVars, fj_ret, tmr_ret>>

MakeDashboardPlots ==
    /\ HasAttr(tmr, "model")
    /\ \E yl \in {None, Some(<<250, 400>>)},
          bt \in {None, Some(<<<<secs2date(5), secs2date(5)>>>>)} :
           LET r == TMR_make_dashboard_plots(
                        tmr, yl, None,
                        IF bt = None THEN None
                        ELSE Some([k \in 1..Len(bt[1]) |->
                                     <<date2secs(bt[1][k][1]),
                                       date2secs(bt[1][k][2])>>]))
           IN  tmr_ret' = Some([op |-> "make_dashboard_plots",
                                yplotlimits |-> yl, bad_times |-> bt,
                                exc |-> r.exc, dashboard |-> r.dashboard])
    /\ UNCHANGED <<ctiVars, envVars, dsVars, mdlVars>>
    /\ UNCHANGED <<tmr, tmr_exc, tmr_calls, tmr_args, fj_ret>>

NextDash ==
    \/ ThermalModelRunnerDash
    \/ MakeDashboardPlots

SpecDash == InitDash /\ [][NextDash]_vars

\* the dashboard last made, with default y limits
DefaultDashboard ==
    /\ tmr_ret # None
    /\ tmr_ret[1].exc = NoExc
    /\ tmr_ret[1].yplotlimits = None

\* the values the dashboard plots
Plotted ==
    LET d == tmr_ret[1].dashboard[1]
    IN  {d.telem[i] : i \in 1..Len(d.telem)} \cup
        {d.pred[i] : i \in 1..Len(d.pred)}

\* C16 as claimed: without yplotlimits the limits are two degrees below the
\* least and two degrees above the greatest of the unmasked telemetry and
\* prediction values, so that every plotted value lies inside them.
C16_DefaultLimitsCoverData ==
    DefaultDashboard =>
        LET ylim == tmr_ret[1].dashboard[1].yplotlimits
        IN  /\ \A v \in Plotted : ylim[1] + 20 <= v /\ v <= ylim[2] - 20
            /\ \E v \in Plotted : v = ylim[1] + 20
            /\ \E v \in Plotted : v = ylim[2] - 20

---------------------------------------------------------------------------
(* CTI runs concurrent with a vehicle load *)

\* the most states the page of a vehicle load holds
MaxStates == 2

\* what the vehicle load commands in a state
StateKinds ==
    {[ccd_count |-> 2, fep_count |-> 3, clocking |-> 0, vid_board |-> 0,
      pitch |-> 90, roll |-> -6],
     [ccd_count |-> 6, fep_count |-> 6, clocking |-> 1, vid_board |-> 1,
      pitch |-> 170, roll |-> 3]}

\* the start times of the states of a page: increasing, from before the run
\* to after its stop
StateStarts(tstop) ==
    UNION {{st \in [1..n -> (tstop - 2)..(tstop + 1)] :
               \A i \in 1..(n - 1) : st[i] < st[i + 1]} : n \in 1..MaxStates}

\* the states.dat table of the load's page, and the rolls its attitudes give
LoadPage(starts, kinds) ==
    LET n == Len(starts)
        Col(f) == [i \in 1..n |-> kinds[i][f]]
    IN  [load_states |->
            ("ccd_count" :> Col("ccd_count")) @@ ("fep_count" :> Col("fep_count")) @@
            ("clocking" :> Col("clocking")) @@ ("vid_board" :> Col("vid_board")) @@
            ("pitch" :> Col("pitch")) @@
            ("simpos" :> [i \in 1..n |-> -99616]) @@
            ("tstart" :> starts) @@
            ("tstop" :> [i \in 1..n |-> IF i < n THEN starts[i + 1]
                                        ELSE starts[n] + 10]) @@
            ("datestart" :> [i \in 1..n |-> secs2date(starts[i])]) @@
            ("datestop" :> [i \in 1..n |-> secs2date(IF i < n THEN starts[i + 1]
                                                     ELSE starts[n] + 10)]),
         rolls |-> Col("roll")]

\* the world of a run beside a vehicle load: the load's page, and a xija
\* series that stays below the limit, touches it or crosses it
LoadWorlds(name, tstart, tstop) ==
    UNION {{[environ_SKA |-> environ_SKA, fs |-> fs,
             xija_times |-> <<tstart, tstart + 1>>,
             xija_mvals |-> <<limits[name] - 1, limits[name] + d>>,
             dpa_power |-> FALSE, bad_times_indices |-> {},
             msids_size |-> 2,
             telem_vals |-> <<limits[name] - 1, limits[name] - 1>>,
             telem_mask |-> <<TRUE, TRUE>>,
             rolls |-> LoadPage(st, k).rolls,
             load_states |-> LoadPage(st, k).load_states] :
                k \in [1..Len(st) -> StateKinds], d \in {-1, 1}} :
           st \in StateStarts(tstop)}

\* runs of "1deamzt" beside the load, and one without a load
LoadRunArgs ==
    {[name |-> "1deamzt", tstart |-> secs2date(4), tstop |-> secs2date(4 + 2 * h),
      T_init |-> 140, pitch |-> 150, ccd_count |-> cc, vehicle_load |-> vl,
      simpos |-> -99616, off_nominal_roll |-> 0, dh_heater |-> 0,
      clocking |-> ck, model_spec |-> None] :
        h \in 0..1, cc \in {4, 5}, vl \in {None, Some("SEP0917C")},
        ck \in {0, 1}}

\* The methods SimulateCTIRun overrides (lines 745-758).  Each result is
\* [exc, fs, self]: the exception raised, the files and the object after
\* the call.
CTI_write_msids(self, filename, fields, mask_field, overwrite, files) ==
    [exc |-> "NotImplementedError", fs |-> files, self |-> self]

CTI_write_states(self, states_file, overwrite, files) ==
    [exc |-> "NotImplementedError", fs |-> files, self |-> self]

\* write_model as ModelDataset defines it, were it not overridden
CTI_write_model_inherited(self, filename, overwrite, files) ==
    LET r == ModelDataset_write_model(self, filename, overwrite, files,
                                      [pprint_fmt |-> "str"])
    IN  [exc |-> r.exc, fs |-> r.fs, self |-> self]

CTI_write_model(self, filename, overwrite, files) ==
    [exc |-> "NotImplementedError", fs |-> files, self |-> self]

CTI_make_dashboard_plots(self, yplotlimits, errorplotlimits, files) ==
    [exc |-> "NotImplementedError", fs |-> files, self |-> self]

CTI_write_model_and_data(self, filename, overwrite, files) ==
    [exc |-> "NotImplementedError", fs |-> files, self |-> self]

StatesFile == <<"states.dat">>

InitLoad ==
    /\ CtiIdle
    /\ TmrIdle
    /\ DsIdle
    /\ MdlIdle
    /\ environ_SKA = Some(SkaDir)
    /\ fs \in {SkaFs, (OutFile :> OldFile) @@ SkaFs}

\* The object is constructed once.
SimulateCTIRunLoad ==
    /\ cti_args = None
    /\ \E a \in LoadRunArgs :
         \E w \in LoadWorlds(a.name, date2secs(a.tstart), date2secs(a.tstop)) :
             LET r == CTI_init(a, w)
             IN  /\ cti' = r.self
                 /\ cti_exc' = r.exc
                 /\ cti_calls' = r.calls
                 /\ cti_ret' = None
                 /\ cti_args' = Some([a |-> a, load_states |-> w.load_states,
                                      rolls |-> w.rolls])
                 /\ UNCHANGED <<envVars, tmrVars, dsVars, mdlVars>>

\* a method of the run is called once the constructor has returned
Called(op, overwrite, r) ==
    Some([op |-> op, overwrite |-> overwrite, exc |-> r.exc])

WriteMsidsCTI ==
    /\ cti_args # None
    /\ cti_exc = NoExc
    /\ \E overwrite \in BOOLEAN :
         LET r == CTI_write_msids(cti, OutFile, <<<<"model", cti.name>>>>,
                                  None, overwrite, fs)
         IN  /\ cti' = r.self
             /\ fs' = r.fs
             /\ cti_ret' = Called("write_msids", overwrite, r)
    /\ UNCHANGED <<cti_exc, cti_calls, cti_args, environ_SKA>>
    /\ UNCHANGED <<tmrVars, dsVars, mdlVars>>

WriteStatesCTI ==
    /\ cti_args # None
    /\ cti_exc = NoExc
    /\ \E overwrite \in BOOLEAN :
         LET r == CTI_write_states(cti, StatesFile, overwrite, fs)
         IN  /\ cti' = r.self
             /\ fs' = r.fs
             /\ cti_ret' = Called("write_states", overwrite, r)
    /\ UNCHANGED <<cti_exc, cti_calls, cti_args, environ_SKA>>
    /\ UNCHANGED <<tmrVars, dsVars, mdlVars>>

WriteModelCTI ==
    /\ cti_args # None
    /\ cti_exc = NoExc
    /\ \E overwrite \in BOOLEAN :
         LET r == CTI_write_model(cti, OutFile, overwrite, fs)
         IN  /\ cti' = r.self
             /\ fs' = r.fs
             /\ cti_ret' = Called("write_model", overwrite, r)
    /\ UNCHANGED <<cti_exc, cti_calls, cti_args, environ_SKA>>
    /\ UNCHANGED <<tmrVars, dsVars, mdlVars>>

MakeDashboardPlotsCTI ==
    /\ cti_args # None
    /\ cti_exc = NoExc
    /\ \E yplotlimits \in {None, Some(<<100, 300>>)} :
         LET r == CTI_make_dashboard_plots(cti, yplotlimits, None, fs)
         IN  /\ cti' = r.self
             /\ fs' = r.fs
             /\ cti_ret' = Called("make_dashboard_plots", FALSE, r)
    /\ UNCHANGED <<cti_exc, cti_calls, cti_args, environ_SKA>>
    /\ UNCHANGED <<tmrVars, dsVars, mdlVars>>

WriteModelAndDataCTI ==
    /\ cti_args # None
    /\ cti_exc = NoExc
    /\ \E overwrite \in BOOLEAN :
         LET r == CTI_write_model_and_data(cti, OutFile, overwrite, fs)
         IN  /\ cti' = r.self
             /\ fs' = r.fs
             /\ cti_ret' = Called("write_model_and_data", overwrite, r)
    /\ UNCHANGED <<cti_exc, cti_calls, cti_args, environ_SKA>>
    /\ UNCHANGED <<tmrVars, dsVars, mdlVars>>

NextLoad ==
    \/ SimulateCTIRunLoad
    \/ WriteMsidsCTI
    \/ WriteStatesCTI
    \/ WriteModelCTI
    \/ MakeDashboardPlotsCTI
    \/ WriteModelAndDataCTI

SpecLoad == InitLoad /\ [][NextLoad]_vars

\* the run was given a vehicle load, and its states have been set
WithLoad ==
    /\ cti_args # None
    /\ cti_args[1].a.vehicle_load # None
    /\ HasAttr(cti, "states")

\* the states of the load's page
PageStates == cti_args[1].load_states

PlainRun ==
    /\ cti_args # None
    /\ cti_args[1].a.vehicle_load = None
    /\ cti_exc = NoExc
    /\ HasAttr(cti, "violate")

\* C17: the simulation runs from tstart to tend, half the run length past
\* tstop; without a vehicle load there is one commanded state, over
\* [tstart, tend], with fep_count the ccd_count argument and vid_board the
\* clocking argument; and the run's tstop and datestop are the nominal
\* stop.
C17_ExtendedInterval ==
    PlainRun =>
        LET a  == cti_args[1].a
            t0 == date2secs(a.tstart)
            t1 == date2secs(a.tstop)
            tend == cti.xija_model.tstop
        IN  /\ cti.xija_model.tstart = t0
            /\ 2 * (tend - t1) = t1 - t0
            /\ cti.dateend = secs2date(tend)
            /\ \A k \in DOMAIN cti.states : Len(cti.states[k]) = 1
            /\ cti.states["tstart"] = <<t0>>
            /\ cti.states["tstop"] = <<tend>>
            /\ cti.states["datestart"] = <<a.tstart>>
            /\ cti.states["datestop"] = <<secs2date(tend)>>
            /\ cti.states["ccd_count"] = <<a.ccd_count>>
            /\ cti.states["fep_count"] = <<a.ccd_count>>
            /\ cti.states["clocking"] = <<a.clocking>>
            /\ cti.states["vid_board"] = <<a.clocking>>
            /\ cti.tstop = t1
            /\ cti.datestop = secs2date(t1)

\* a run of two seconds that does not clock: tend is a second past tstop
C17_Witness ==
    /\ PlainRun
    /\ cti.tstop = cti.tstart + 2
    /\ cti.xija_model.tstop = cti.tstop + 1
    /\ cti.states["vid_board"] = <<0>>
    /\ cti.states["tstop"] = <<cti.tstop + 1>>

Overridden ==
    {"write_msids", "write_states", "write_model", "write_model_and_data",
     "make_dashboard_plots"}

C20_ResultFieldsConsistent ==
    Constructed =>
        LET times == cti.model.table["times"]
            mvals == cti.model.table[cti.name]
        IN  /\ (cti.limit_time = None) <=> (cti.limit_date = None)
            /\ (cti.limit_date = None) <=> (cti.duration = None)
            /\ cti.violate \in BOOLEAN
            /\ cti.violate => cti.limit_time # None
            /\ cti.limit_time # None =>
                   \E i \in 1..Len(times) :
                       /\ times[i] = cti.limit_time[1]
                       /\ mvals[i] > cti.limit

\* a run that crosses the limit after its first sample and after tstop: the
\* three fields are set and violate is False
C20_Witness ==
    /\ Constructed
    /\ cti.limit_time # None
    /\ cti.limit_date # None
    /\ cti.duration # None
    /\ ~cti.violate
    /\ cti.limit_time[1] > cti.model.table["times"][1]

\* the dataset as its constructor returned it
ConstructedDs ==
    IF ds_args[1].op = "files"
    THEN TMFF_init(ds_args[1].a, ds_args[1].w).self
    ELSE TMFL_init(ds_args[1].a, ds_args[1].w).self

\* the fields write_model_and_data derives
MappedFields == {<<"msids", s>> : s \in Names(states_to_map)}

DiffFields == {<<"model", diff_name[k]>> : k \in DOMAIN diff_name}

WrittenFrom(j) ==
    IF j = 1 THEN ds.model.table["times"]
    ELSE ds.model.table[ds.model.keys[j - 2]]

\* C13 as claimed: the table write_model wrote, read back, has the names
\* time, date and the model's keys in that order, and every numeric column
\* holds the original values rounded to two decimal places.
C13_RoundTripTwoDecimals ==
    rd # None =>
        /\ rd[1].names = <<"time", "date">> \o ds.model.keys
        /\ \A j \in (1..Len(rd[1].names)) \ {2} :
               \A i \in 1..Len(rd[1].columns[j]) :
                   /\ rd[1].columns[j][i].kind = "float"
                   /\ rd[1].columns[j][i].v = 10 * Round2(WrittenFrom(j)[i])

\* C14 as claimed: the table write_model wrote has the columns time and
\* date first, each once, then one column per model key in the order of
\* model.keys(); every column but date is written with '%.2f'; and time and
\* date are the times and dates of the first model key.
C14_WrittenTableColumns ==
    (OutFile \in DOMAIN fs /\ fs[OutFile].kind = "table") =>
        LET t == fs[OutFile]
        IN  /\ t.names = <<"time", "date">> \o ds.model.keys
            /\ Cardinality({j \in 1..Len(t.names) : t.names[j] = "time"}) = 1
            /\ Cardinality({j \in 1..Len(t.names) : t.names[j] = "date"}) = 1
            /\ \A j \in (1..Len(t.names)) \ {2} :
                   \A i \in 1..Len(t.cells[j]) :
                       t.cells[j][i] = fmt_2f(WrittenFrom(j)[i])
            /\ \A i \in 1..Len(t.cells[2]) :
                   t.cells[2][i].v = secs2date(ds.model.table["times"][i])

===========================================================================
